---------------------------- MODULE Spec2Model ----------------------------
(* A model of the fixed-width record codec github.com/hduplooy/gofixedwidth *)
(* (revision of 26 Jun 2018: Reader, Writer and their bufio streams).       *)
(* Strings are sequences of byte values.  The underlying streams are the    *)
(* in-memory ones of the examples (strings.Reader, strings.Builder): they   *)
(* are shorter than bufio's 4096-byte buffer and never fail, so a bufio     *)
(* read sees every remaining byte and a bufio write is held until Flush.    *)
EXTENDS Integers, Sequences, FiniteSets, TLC

VARIABLES
    r,       \* the Reader struct
    rin,     \* bytes of the input stream not yet consumed by r.r
    rpc,     \* "idle", "readall" (inside ReadAll's loop) or "crashed" (run-time panic)
    racc,    \* ReadAll's local result slice while its loop runs
    rres,    \* what the last reader call returned, with the history of the call:
             \* the stream before it (pre), the chunks its skip phase consumed
             \* (discarded), the comment lines dropped (comments), the raw line
             \* of each record (srcs), the bytes its last line took (used) and
             \* the error that ended it (cause)
    rskip,   \* history: the byte chunks skipInitialLines has consumed, over all calls
    w,       \* the Writer struct
    wbuf,    \* bytes held in the bufio.Writer
    wout,    \* bytes that reached the underlying stream
    wpc,     \* "idle", or "crashed" after a run-time panic in a writer call
    wres,    \* what the last writer call returned, with the state it started from
    stage    \* which part of the life cycle the program is in

vars == <<r, rin, rpc, racc, rres, rskip, w, wbuf, wout, wpc, wres, stage>>

-----------------------------------------------------------------------------
(* Program constants *)

EOLNONE == 0
EOLCR == 1
EOLLF == 2
EOLCRLF == 3

ALIGNLEFT == 0
ALIGNRIGHT == 1

CR == 13
LF == 10
SP == 32
TAB == 9
\* the comment rune of the examples, '#'
HASH == 35

\* error values (the Err of a ParseError, or the error itself)
NIL == "nil"
EOF == "EOF"
ErrFieldCount == "wrong number of fields in line"
ErrNoFields == "no fields defined to read"
ErrFieldLengthError == "fields width incorrect"
ErrIncorrectLineWidth == "incorrect line width"
ErrCRLF == "CRLF not found at end of line"
ErrNothing == "Nothing to return"
\* a Go run-time panic (index or slice bounds out of range): the call never returns
PANIC == "panic"

\* an error as the caller sees it: bare, or wrapped in a ParseError
Bare(e) == [wrapped |-> FALSE, Line |-> 0, Column |-> 0, Err |-> e]

-----------------------------------------------------------------------------
(* Bounds of the model *)

\* longest enumerated input stream
MaxIn == 3
\* largest numOfRows given to ReadRows
MaxRows == 2
\* ReadAll's loop is followed for at most this many records
MaxRecs == 8
\* longest field or comment text given to the Writer
MaxFieldLen == 3
\* most records in one WriteAll
MaxBatch == 2
\* writer calls start while at most this many bytes have been emitted
MaxOut == 1

-----------------------------------------------------------------------------
(* Byte-string helpers *)

Min(a, b) == IF a < b THEN a ELSE b

RECURSIVE SumSeq(_)
SumSeq(s) == IF s = <<>> THEN 0 ELSE Head(s) + SumSeq(Tail(s))

RECURSIVE Repeat(_, _)
Repeat(b, n) == IF n <= 0 THEN <<>> ELSE <<b>> \o Repeat(b, n - 1)

RECURSIVE Flatten(_)
Flatten(ss) == IF ss = <<>> THEN <<>> ELSE Head(ss) \o Flatten(Tail(ss))

\* all sequences over S of length at most n
SeqsUpTo(S, n) == UNION {[1..k -> S] : k \in 0..n}

\* strings.Trim(field, " \t")
RECURSIVE TrimLeft(_)
TrimLeft(s) ==
    IF s # <<>> /\ Head(s) \in {SP, TAB} THEN TrimLeft(Tail(s)) ELSE s

RECURSIVE TrimRight(_)
TrimRight(s) ==
    IF s # <<>> /\ s[Len(s)] \in {SP, TAB}
    THEN TrimRight(SubSeq(s, 1, Len(s) - 1))
    ELSE s

Trim(s) == TrimRight(TrimLeft(s))

-----------------------------------------------------------------------------
(* bufio.Reader over an in-memory stream s *)

\* b.ReadString(delim): the bytes up to and including the first delim, or
\* everything that is left together with io.EOF
ReadString(s, delim) ==
    IF \E i \in 1..Len(s) : s[i] = delim
    THEN LET i == CHOOSE k \in 1..Len(s) :
                      s[k] = delim /\ \A j \in 1..(k - 1) : s[j] # delim
         IN  [data |-> SubSeq(s, 1, i), err |-> NIL, rest |-> SubSeq(s, i + 1, Len(s))]
    ELSE [data |-> s, err |-> EOF, rest |-> <<>>]

\* b.Read(p) with len(p) = n: copies what is there, at most n bytes
BufRead(s, n) ==
    IF n = 0 THEN [n |-> 0, data |-> <<>>, err |-> NIL, rest |-> s]
    ELSE IF s = <<>> THEN [n |-> 0, data |-> <<>>, err |-> EOF, rest |-> s]
    ELSE LET k == Min(n, Len(s))
         IN  [n |-> k, data |-> SubSeq(s, 1, k), err |-> NIL,
              rest |-> SubSeq(s, k + 1, Len(s))]

-----------------------------------------------------------------------------
(* Reader *)

\* the struct literal of NewReader
ReaderZero ==
    [Comment |-> 0, SkipLines |-> 0, SkipStart |-> 0, SkipEnd |-> 0,
     FieldLengths |-> <<>>, FieldAlign |-> <<>>, TrimFields |-> FALSE,
     HasEOL |-> EOLCRLF, width |-> 0, line |-> 0, column |-> 0,
     initialskipdone |-> FALSE]

\* the loop of Init over FieldLengths: width grows until a length <= 0 is met
RECURSIVE widthLoop(_, _, _)
widthLoop(fl, i, width) ==
    IF i > Len(fl) THEN [width |-> width, err |-> NIL]
    ELSE IF fl[i] <= 0 THEN [width |-> width, err |-> ErrFieldLengthError]
    ELSE widthLoop(fl, i + 1, width + fl[i])

\* Reader.Init and Writer.Init (the same body): the struct after the call and
\* the error returned.  A nil FieldAlign is the empty sequence.
InitStruct(x) ==
    LET x1 == [x EXCEPT !.SkipStart = IF @ < 0 THEN 0 ELSE @,
                        !.SkipEnd = IF @ < 0 THEN 0 ELSE @]
        base == x1.SkipStart + x1.SkipEnd
    IN  IF Len(x1.FieldLengths) = 0
        THEN [x |-> [x1 EXCEPT !.width = base], err |-> ErrNoFields]
        ELSE LET wl == widthLoop(x1.FieldLengths, 1, base)
             IN  IF wl.err # NIL
                 THEN [x |-> [x1 EXCEPT !.width = wl.width], err |-> wl.err]
                 ELSE [x |-> [x1 EXCEPT !.width = wl.width,
                                        !.FieldAlign =
                                            IF @ = <<>>
                                            THEN [i \in 1..Len(x1.FieldLengths) |-> ALIGNLEFT]
                                            ELSE @],
                       err |-> NIL]

\* NewReader: the struct literal, then Init, whose error is dropped
NewReader == InitStruct(ReaderZero).x

\* Reader.error / Writer.error: a ParseError with the struct's line and column
WrapError(x, e) == [wrapped |-> TRUE, Line |-> x.line, Column |-> x.column, Err |-> e]

\* a line read up to its delimiter (lines 88-92, 96-100): the delimiter is
\* cut off; at the end of the stream what was read goes back with the error.
\* used is history: the bytes the call took off the stream
cutDelimiter(t) ==
    IF t.err # NIL
    THEN [line |-> t.data, err |-> t.err, rest |-> t.rest, used |-> t.data]
    ELSE [line |-> SubSeq(t.data, 1, Len(t.data) - 1), err |-> NIL, rest |-> t.rest,
          used |-> t.data]

\* a line read up to CR in mode crlf (lines 104-115): the next byte is read;
\* when it is LF the line goes back as read, the CR still at its end
expectLF(t) ==
    IF t.err # NIL
    THEN [line |-> t.data, err |-> t.err, rest |-> t.rest, used |-> t.data]
    ELSE IF t.rest = <<>>
    THEN [line |-> t.data, err |-> EOF, rest |-> <<>>, used |-> t.data]
    ELSE IF Head(t.rest) = LF
    THEN [line |-> t.data, err |-> NIL, rest |-> Tail(t.rest),
          used |-> Append(t.data, LF)]
    ELSE [line |-> SubSeq(t.data, 1, Len(t.data) - 1), err |-> ErrCRLF,
          rest |-> Tail(t.rest), used |-> Append(t.data, Head(t.rest))]

\* width bytes read in mode none (lines 119-125): the count read is dropped,
\* so a short read leaves zero bytes at the end of the line
fixedLine(t, width) ==
    IF t.err # NIL
    THEN [line |-> <<>>, err |-> t.err, rest |-> t.rest, used |-> <<>>]
    ELSE [line |-> t.data \o Repeat(0, width - t.n), err |-> NIL, rest |-> t.rest,
          used |-> t.data]

\* Reader.readLine on the stream s: the line returned, the error, what is left
readLine(rd, s) ==
    CASE rd.HasEOL = EOLCR -> cutDelimiter(ReadString(s, CR))
      [] rd.HasEOL = EOLLF -> cutDelimiter(ReadString(s, LF))
      [] rd.HasEOL = EOLCRLF -> expectLF(ReadString(s, CR))
      [] rd.HasEOL = EOLNONE -> fixedLine(BufRead(s, rd.width), rd.width)
      [] OTHER -> [line |-> <<>>, err |-> ErrNothing, rest |-> s, used |-> <<>>]

\* a comment check that is an if where the code has a for: one comment line
\* is dropped and the next line is taken as the data line
commentOnce(rd, l, seen) ==
    IF Len(l.line) = 0 \/ l.line[1] # rd.Comment
    THEN [line |-> l.line, err |-> IF Len(l.line) = 0 THEN PANIC ELSE NIL,
          rest |-> l.rest, used |-> l.used, comments |-> seen]
    ELSE [line |-> readLine(rd, l.rest).line, err |-> readLine(rd, l.rest).err,
          rest |-> readLine(rd, l.rest).rest, used |-> readLine(rd, l.rest).used,
          comments |-> Append(seen, l.line)]

\* the comment loop of parseRecord (lines 184-189): l is the line in hand, n
\* the next line read; tmp[0] of an empty line is an index out of range
RECURSIVE commentLoop(_, _, _)
commentNext(rd, l, n, seen) ==
    IF n.err # NIL
    THEN [line |-> <<>>, err |-> n.err, rest |-> n.rest, used |-> n.used,
          comments |-> Append(seen, l.line)]
    ELSE commentLoop(rd, n, Append(seen, l.line))

commentLoop(rd, l, seen) ==
    IF Len(l.line) = 0
    THEN [line |-> l.line, err |-> PANIC, rest |-> l.rest, used |-> l.used,
          comments |-> seen]
    ELSE IF l.line[1] # rd.Comment
    THEN [line |-> l.line, err |-> NIL, rest |-> l.rest, used |-> l.used,
          comments |-> seen]
    ELSE commentNext(rd, l, readLine(rd, l.rest), seen)

\* lines 182-190: the comment loop runs only when a Comment rune is set
skipComments(rd, l) ==
    IF rd.Comment # 0 THEN commentLoop(rd, l, <<>>)
    ELSE [line |-> l.line, err |-> NIL, rest |-> l.rest, used |-> l.used,
          comments |-> <<>>]

\* a trim that takes the blanks off the front of a field only
trimFront(rd, field) == IF rd.TrimFields THEN TrimLeft(field) ELSE field

\* strings.Trim when TrimFields is set (lines 205-207)
trimField(rd, field) == IF rd.TrimFields THEN Trim(field) ELSE field

\* the field loop of parseRecord (lines 201-210): tmp[curpos : curpos+val]
\* outside the line is a slice bounds panic
RECURSIVE fieldLoop(_, _, _, _, _)
fieldLoop(rd, tmp, i, curpos, result) ==
    IF i > Len(rd.FieldLengths) THEN [fields |-> result, err |-> NIL]
    ELSE IF curpos < 0 \/ rd.FieldLengths[i] < 0
            \/ curpos + rd.FieldLengths[i] > Len(tmp)
    THEN [fields |-> <<>>, err |-> PANIC]
    ELSE fieldLoop(rd, tmp, i + 1, curpos + rd.FieldLengths[i],
                   Append(result,
                          trimField(rd, SubSeq(tmp, curpos + 1,
                                               curpos + rd.FieldLengths[i]))))

\* what parseRecord returns, with (history) the raw line and the comment lines
parsed(f, c) ==
    [fields |-> f.fields, err |-> f.err, rest |-> c.rest, line |-> c.line,
     used |-> c.used, comments |-> c.comments]

\* lines 191-211 of parseRecord: the width check, the CR/LF scan, the fields
checkAndSlice(rd, c) ==
    IF c.err # NIL
    THEN parsed([fields |-> <<>>, err |-> c.err], [c EXCEPT !.line = <<>>])
    ELSE IF Len(c.line) # rd.width
    THEN parsed([fields |-> <<>>, err |-> ErrIncorrectLineWidth], c)
    ELSE IF \E k \in 1..Len(c.line) : c.line[k] \in {CR, LF}
    THEN parsed([fields |-> <<>>, err |-> ErrIncorrectLineWidth], c)
    ELSE parsed(fieldLoop(rd, c.line, 1, rd.SkipStart, <<>>), c)

\* lines 178-190 of parseRecord, l being the first line read
afterFirstLine(rd, l) ==
    IF l.err # NIL
    THEN [fields |-> <<>>, err |-> l.err, rest |-> l.rest, line |-> <<>>,
          used |-> l.used, comments |-> <<>>]
    ELSE checkAndSlice(rd, skipComments(rd, l))

\* Reader.parseRecord on the stream s: the fields, the error, what is left of
\* the stream, and (history) the raw line sliced and the comment lines dropped
parseRecord(rd, s) == afterFirstLine(rd, readLine(rd, s))

\* the loop of skipInitialLines from its i-th round: the error, what is left
\* of the stream, and (history) the byte chunks consumed
RECURSIVE skipLoop(_, _, _, _)
skipNext(rd, s, i, chunks, l) ==
    IF l.err # NIL
    THEN [err |-> l.err, rest |-> l.rest,
          chunks |-> Append(chunks, SubSeq(s, 1, Len(s) - Len(l.rest)))]
    ELSE skipLoop(rd, l.rest, i + 1,
                  Append(chunks, SubSeq(s, 1, Len(s) - Len(l.rest))))

skipLoop(rd, s, i, chunks) ==
    IF i >= rd.SkipLines THEN [err |-> NIL, rest |-> s, chunks |-> chunks]
    ELSE skipNext(rd, s, i, chunks, readLine(rd, s))

\* lines 223-224: initialskipdone is set only when every line was read
skipDone(rd, k) ==
    [rd |-> IF k.err = NIL THEN [rd EXCEPT !.initialskipdone = TRUE] ELSE rd,
     err |-> k.err, rest |-> k.rest, chunks |-> k.chunks]

\* Reader.skipInitialLines
skipInitialLines(rd, s) == skipDone(rd, skipLoop(rd, s, 0, <<>>))

\* the first lines of Read, ReadRows and ReadAll: skip unless already done
skipOnce(rd, s) ==
    IF ~rd.initialskipdone THEN skipInitialLines(rd, s)
    ELSE [rd |-> rd, err |-> NIL, rest |-> s, chunks |-> <<>>]

\* the loop of ReadRows from its i-th round, x being what it has gathered
RECURSIVE rowsLoop(_, _, _, _, _)
rowsNext(rd, i, numOfRows, x, p) ==
    IF p.err # NIL
    THEN [x EXCEPT !.cause = p.err, !.rest = p.rest, !.used = p.used,
                   !.comments = @ \o p.comments]
    ELSE rowsLoop(rd, p.rest, i + 1, numOfRows,
                  [x EXCEPT !.recs = Append(@, p.fields), !.rest = p.rest,
                            !.srcs = Append(@, p.line), !.used = p.used,
                            !.comments = @ \o p.comments])

rowsLoop(rd, s, i, numOfRows, x) ==
    IF i >= numOfRows THEN x
    ELSE rowsNext(rd, i, numOfRows, x, parseRecord(rd, s))

\* nothing gathered yet, s still to read
NoRows(s) ==
    [recs |-> <<>>, cause |-> NIL, rest |-> s, srcs |-> <<>>, used |-> <<>>,
     comments |-> <<>>]

\* Read's one parseRecord call as a loop result
oneRow(p) ==
    [recs |-> IF p.err = NIL THEN <<p.fields>> ELSE <<>>, cause |-> p.err,
     rest |-> p.rest, srcs |-> IF p.err = NIL THEN <<p.line>> ELSE <<>>,
     used |-> p.used, comments |-> p.comments]

\* what Read hands back for parseRecord's err (line 235): the error as it is
readError(rd, err) == Bare(err)

\* what ReadRows hands back when parseRecord fails with err (line 250)
readRowsError(rd, err) == IF err = NIL THEN Bare(NIL) ELSE WrapError(rd, err)

\* a ReadAll that hands every error back as it came, end of stream included
\* (src/gofixedwidth.go line 235)
readAllKeepsEOF(rd, err) == WrapError(rd, err)

\* what ReadAll hands back when parseRecord fails with err (lines 268-273)
readAllError(rd, err) == IF err = EOF THEN Bare(NIL) ELSE Bare(err)

\* what a failed skip phase hands back (lines 232, 243, 262)
skipError(rd, err) == WrapError(rd, err)

-----------------------------------------------------------------------------
(* The inputs of the Reader *)

\* the bytes of the enumerated input streams: 'a', '#', LF, CR
InBytes == {97, HASH, LF, CR}

\* the input of examples/example01.go, lines 23-30: a header line, a comment
\* line, the lines of John and Peter, a comment line, the lines of Susan
\* and Sarah, each ended by LF
ExampleInput ==
    <<84, 104, 105, 115, 32, 105, 115, 32, 97, 32, 104, 101, 97, 100, 101,
         114, 32, 108, 105, 110, 101, 32, 116, 111, 32, 98, 101, 32, 115,
         107, 105, 112, 112, 101, 100, 10>>
    \o <<35, 32, 84, 104, 101, 32, 102, 111, 108, 108, 111, 119, 105, 110,
         103, 32, 105, 115, 32, 105, 110, 102, 111, 32, 102, 111, 114, 32,
         116, 104, 101, 32, 109, 101, 110, 10>>
    \o <<32, 32, 74, 111, 104, 110, 32, 32, 32, 49, 50, 52, 53, 10>>
    \o <<32, 32, 80, 101, 116, 101, 114, 32, 32, 51, 53, 52, 53, 10>>
    \o <<35, 32, 84, 104, 101, 32, 102, 111, 108, 108, 111, 119, 105, 110,
         103, 32, 105, 115, 32, 105, 110, 102, 111, 32, 102, 111, 114, 32,
         99, 101, 114, 116, 97, 105, 110, 32, 119, 111, 109, 101, 110, 10>>
    \o <<32, 32, 83, 117, 115, 97, 110, 32, 32, 54, 55, 56, 52, 10>>
    \o <<32, 32, 83, 97, 114, 97, 104, 32, 32, 52, 51, 50, 49, 10>>

\* SkipStart, SkipEnd and FieldLengths as the caller assigns them
ReaderLayouts ==
    { <<0, 0, <<>>>>, <<0, 0, <<1>>>>, <<1, 0, <<1>>>>, <<0, 1, <<1>>>>,
      <<0, 0, <<2>>>>, <<0, 0, <<1, 1>>>> }

\* the configurations tried on every enumerated stream
ReaderConfigs ==
    [Comment : {0, HASH}, SkipLines : {0, 1}, HasEOL : {EOLNONE, EOLCR, EOLLF, EOLCRLF},
     TrimFields : {FALSE}, layout : ReaderLayouts]

\* the configuration of examples/example01.go, lines 35-40
ExampleConfig ==
    [Comment |-> HASH, SkipLines |-> 1, HasEOL |-> EOLLF, TrimFields |-> TRUE,
     layout |-> <<2, 0, <<7, 4>>>>]

\* streams longer than the enumeration reaches, each with the configurations
\* it is read under: the example; a skipped line, two comment lines and two
\* records in mode lf; the same shapes in modes cr and crlf; a malformed line
\* ending ahead of two lines; fields with blanks in front, inside and behind;
\* fields with blanks to trim
Scenarios ==
    { [stream |-> ExampleInput, configs |-> {ExampleConfig}],
      [stream |-> <<97, LF, HASH, LF, HASH, LF, 97, LF, 97, LF>>,
       configs |-> [Comment : {0, HASH}, SkipLines : {0, 1, 2}, HasEOL : {EOLLF},
                    TrimFields : {FALSE}, layout : {<<0, 0, <<1>>>>}]],
      [stream |-> <<97, CR, HASH, CR, 97, CR, 97>>,
       configs |-> [Comment : {0, HASH}, SkipLines : {0, 1}, HasEOL : {EOLCR},
                    TrimFields : {FALSE}, layout : {<<0, 0, <<1>>>>}]],
      [stream |-> <<97, CR, LF, HASH, CR, LF, 97, CR, LF>>,
       configs |-> [Comment : {0, HASH}, SkipLines : {0, 1}, HasEOL : {EOLCRLF},
                    TrimFields : {FALSE}, layout : {<<0, 0, <<1>>>>, <<0, 0, <<2>>>>}]],
      [stream |-> <<97, CR, LF, 97, CR, 97, 97, CR, LF, 97, CR, LF>>,
       configs |-> [Comment : {0}, SkipLines : {1, 2}, HasEOL : {EOLCRLF},
                    TrimFields : {FALSE}, layout : {<<0, 0, <<1>>>>}]],
      [stream |-> <<SP, 97, SP, TAB, 97, TAB, LF>>,
       configs |-> [Comment : {0}, SkipLines : {0}, HasEOL : {EOLLF},
                    TrimFields : BOOLEAN,
                    layout : {<<0, 0, <<6>>>>, <<1, 1, <<2, 2>>>>}]],
      [stream |-> <<SP, 97, TAB, LF, SP, SP, SP, LF>>,
       configs |-> [Comment : {0}, SkipLines : {0}, HasEOL : {EOLLF},
                    TrimFields : BOOLEAN, layout : {<<0, 0, <<3>>>>, <<1, 1, <<1>>>>}]] }

Streams == SeqsUpTo(InBytes, MaxIn) \cup {x.stream : x \in Scenarios}

\* the configurations the stream s is read under
ConfigsFor(s) ==
    IF \E x \in Scenarios : x.stream = s
    THEN UNION {x.configs : x \in {y \in Scenarios : y.stream = s}}
    ELSE ReaderConfigs

\* the caller's assignments to the exported fields of a Reader or Writer
Assign(x, c) ==
    [x EXCEPT !.Comment = c.Comment, !.HasEOL = c.HasEOL, !.TrimFields = c.TrimFields,
              !.SkipStart = c.layout[1], !.SkipEnd = c.layout[2],
              !.FieldLengths = c.layout[3]]

-----------------------------------------------------------------------------
(* The Reader's calls *)

NoReaderResult ==
    [op |-> "none", n |-> 0, recs |-> <<>>, err |-> Bare(NIL), cause |-> NIL,
     pre |-> <<>>, predone |-> FALSE, discarded |-> <<>>, srcs |-> <<>>,
     used |-> <<>>, comments |-> <<>>]

\* the chunks of a skip phase that took bytes off the stream
Consumed(chunks) == SelectSeq(chunks, LAMBDA c : c # <<>>)

\* r.FieldLengths = ..., r.Comment = ..., between NewReader and the first call
RConfigure ==
    /\ stage = "new"
    /\ \E c \in ConfigsFor(rin) :
          r' = [Assign(r, c) EXCEPT !.SkipLines = c.SkipLines]
    /\ stage' = "configured"
    /\ UNCHANGED <<rin, rpc, racc, rres, rskip, w, wbuf, wout, wpc, wres>>

\* r.Init()
RInit ==
    /\ stage = "configured"
    /\ rpc = "idle"
    /\ LET i == InitStruct(r)
       IN  /\ r' = i.x
           /\ rres' = [NoReaderResult EXCEPT !.op = "Init", !.err = Bare(i.err),
                                             !.cause = i.err, !.pre = rin,
                                             !.predone = r.initialskipdone]
    /\ UNCHANGED <<rin, rpc, racc, rskip, w, wbuf, wout, wpc, wres, stage>>

\* a call returns: k is its skip phase, l what its loop did, err the error it
\* hands back when the skip phase went through; a panic ends the program
ReaderCall(op, n, k, l, err) ==
    /\ r' = k.rd
    /\ rskip' = rskip \o Consumed(k.chunks)
    /\ racc' = <<>>
    /\ rin' = IF k.err # NIL THEN k.rest ELSE l.rest
    /\ rpc' = IF k.err = NIL /\ l.cause = PANIC THEN "crashed" ELSE "idle"
    /\ rres' = IF k.err # NIL
               THEN [NoReaderResult EXCEPT !.op = op, !.n = n, !.pre = rin,
                                           !.predone = r.initialskipdone,
                                           !.discarded = k.chunks,
                                           !.err = skipError(r, k.err),
                                           !.cause = k.err]
               ELSE [op |-> op, n |-> n, recs |-> l.recs,
                     err |-> IF l.cause = PANIC THEN Bare(PANIC) ELSE err,
                     cause |-> l.cause, pre |-> rin, predone |-> r.initialskipdone,
                     discarded |-> k.chunks, srcs |-> l.srcs, used |-> l.used,
                     comments |-> l.comments]
    /\ UNCHANGED <<w, wbuf, wout, wpc, wres, stage>>

ReadAfterSkip(k, l) == ReaderCall("Read", 1, k, l, readError(r, l.cause))

ReadFrom(k) == ReadAfterSkip(k, oneRow(parseRecord(k.rd, k.rest)))

\* r.Read()
Read ==
    /\ stage = "configured"
    /\ rpc = "idle"
    /\ ReadFrom(skipOnce(r, rin))

ReadRowsAfterSkip(numOfRows, k, l) ==
    ReaderCall("ReadRows", numOfRows, k, l, readRowsError(r, l.cause))

ReadRowsFrom(numOfRows, k) ==
    ReadRowsAfterSkip(numOfRows, k, rowsLoop(k.rd, k.rest, 0, numOfRows, NoRows(k.rest)))

\* r.ReadRows(numOfRows)
ReadRows ==
    /\ stage = "configured"
    /\ rpc = "idle"
    /\ \E numOfRows \in 0..MaxRows : ReadRowsFrom(numOfRows, skipOnce(r, rin))

ReadAllEnter(k) ==
    /\ r' = k.rd
    /\ rskip' = rskip \o Consumed(k.chunks)
    /\ rin' = k.rest
    /\ racc' = <<>>
    /\ rpc' = IF k.err # NIL THEN "idle" ELSE "readall"
    /\ rres' = [NoReaderResult EXCEPT !.op = "ReadAll", !.pre = rin,
                                      !.predone = r.initialskipdone,
                                      !.discarded = k.chunks,
                                      !.err = IF k.err # NIL THEN skipError(r, k.err)
                                              ELSE Bare(NIL),
                                      !.cause = k.err]

\* r.ReadAll() up to its loop: the skip phase (lines 259-265)
ReadAllBegin ==
    /\ stage = "configured"
    /\ rpc = "idle"
    /\ ReadAllEnter(skipOnce(r, rin))
    /\ UNCHANGED <<w, wbuf, wout, wpc, wres, stage>>

ReadAllRound(p) ==
    /\ rin' = p.rest
    /\ racc' = IF p.err = NIL THEN Append(racc, p.fields) ELSE <<>>
    /\ rpc' = IF p.err = NIL THEN "readall"
              ELSE IF p.err = PANIC THEN "crashed" ELSE "idle"
    /\ rres' = IF p.err = NIL
               THEN [rres EXCEPT !.srcs = Append(@, p.line), !.used = p.used,
                                 !.comments = @ \o p.comments]
               ELSE [rres EXCEPT !.recs = racc, !.n = Len(racc), !.used = p.used,
                                 !.comments = @ \o p.comments, !.cause = p.err,
                                 !.err = IF p.err = PANIC THEN Bare(PANIC)
                                         ELSE readAllError(r, p.err)]

\* one round of ReadAll's loop (lines 266-275)
ReadAllIter ==
    /\ rpc = "readall"
    /\ Len(racc) < MaxRecs
    /\ ReadAllRound(parseRecord(r, rin))
    /\ UNCHANGED <<r, rskip, w, wbuf, wout, wpc, wres, stage>>

-----------------------------------------------------------------------------
(* Writer *)

\* the struct literal of NewWriter
WriterZero ==
    [Comment |-> 0, SkipStart |-> 0, SkipEnd |-> 0, FieldLengths |-> <<>>,
     FieldAlign |-> <<>>, HasEOL |-> EOLCR, TrimFields |-> FALSE, width |-> 0,
     line |-> 0, column |-> 0]

\* Writer.outputSpaces(n)
outputSpaces(n) == Repeat(SP, n)

\* bufio's WriteRune: the UTF-8 encoding of a rune below 0x10000
EncodeRune(rn) ==
    IF rn < 128 THEN <<rn>>
    ELSE IF rn < 2048 THEN <<192 + (rn \div 64), 128 + (rn % 64)>>
    ELSE <<224 + (rn \div 4096), 128 + ((rn \div 64) % 64), 128 + (rn % 64)>>

\* a line delimiter that is CR LF whenever there is one, as when HasEOL was a
\* flag (src/gofixedwidth.go lines 335-338)
lineEndingFlag(eol) == IF eol = EOLNONE THEN <<>> ELSE <<CR, LF>>

\* the line delimiter that Write and WriteComment emit (lines 393-400, 439-446)
lineEnding(eol) ==
    (IF eol = EOLCR \/ eol = EOLCRLF THEN <<CR>> ELSE <<>>)
    \o (IF eol = EOLLF \/ eol = EOLCRLF THEN <<LF>> ELSE <<>>)

\* a padding that takes no notice of the alignment: the spaces always go behind
padBehind(buf, fl, align) == buf \o outputSpaces(fl - Len(buf))

\* a field that fits its column (lines 374-389): spaces in front when aligned
\* right, spaces behind when aligned left
padField(buf, fl, align) ==
    (IF align = ALIGNRIGHT THEN outputSpaces(fl - Len(buf)) ELSE <<>>)
    \o buf
    \o (IF align = ALIGNLEFT THEN outputSpaces(fl - Len(buf)) ELSE <<>>)

\* a long field that is cut whether or not TrimFields is set
cutField(wr, buf, fl) ==
    IF fl < 0 THEN [out |-> <<>>, err |-> PANIC]
    ELSE [out |-> SubSeq(buf, 1, fl), err |-> NIL]

\* a field longer than its column (lines 362-372): refused, or cut when TrimFields
longField(wr, buf, fl) ==
    IF ~wr.TrimFields THEN [out |-> <<>>, err |-> ErrFieldLengthError]
    ELSE IF fl < 0 THEN [out |-> <<>>, err |-> PANIC]
    ELSE [out |-> SubSeq(buf, 1, fl), err |-> NIL]

\* the column loop of Write from column i, out being what the call has emitted;
\* w.FieldAlign[i] beyond the slice is an index out of range
RECURSIVE columnLoop(_, _, _, _)
columnLong(wr, flds, i, out, t) ==
    IF t.err # NIL THEN [out |-> out, err |-> t.err]
    ELSE columnLoop(wr, flds, i + 1, out \o t.out)

columnLoop(wr, flds, i, out) ==
    IF i > Len(flds) THEN [out |-> out, err |-> NIL]
    ELSE IF Len(flds[i]) > wr.FieldLengths[i]
    THEN columnLong(wr, flds, i, out, longField(wr, flds[i], wr.FieldLengths[i]))
    ELSE IF i > Len(wr.FieldAlign) THEN [out |-> out, err |-> PANIC]
    ELSE columnLoop(wr, flds, i + 1,
                    out \o padField(flds[i], wr.FieldLengths[i], wr.FieldAlign[i]))

\* what Write emits after the last column (lines 392-401)
lineTail(wr, c) ==
    IF c.err # NIL THEN c
    ELSE [out |-> c.out \o outputSpaces(wr.SkipEnd) \o lineEnding(wr.HasEOL),
          err |-> NIL]

\* Writer.Write(flds): the bytes handed to the bufio.Writer and the error
Write(wr, flds) ==
    IF Len(flds) # Len(wr.FieldLengths)
    THEN [out |-> outputSpaces(wr.SkipStart), err |-> ErrFieldCount]
    ELSE lineTail(wr, columnLoop(wr, flds, 1, outputSpaces(wr.SkipStart)))

\* the loop of WriteAll from record i: out is what was emitted, flush whether
\* the final Flush was reached, done how many records Write was called on
RECURSIVE writeAllLoop(_, _, _, _)
\* a loop that takes no notice of a failed Write and goes on to the next record
writeAllGoesOn(wr, recs, i, out, x) == writeAllLoop(wr, recs, i + 1, out \o x.out)

writeAllNext(wr, recs, i, out, x) ==
    IF x.err # NIL
    THEN [out |-> out \o x.out, err |-> x.err, flush |-> FALSE, done |-> i]
    ELSE writeAllLoop(wr, recs, i + 1, out \o x.out)

writeAllLoop(wr, recs, i, out) ==
    IF i > Len(recs) THEN [out |-> out, err |-> NIL, flush |-> TRUE, done |-> i - 1]
    ELSE writeAllNext(wr, recs, i, out, Write(wr, recs[i]))

\* Writer.WriteAll(recs)
WriteAll(wr, recs) == writeAllLoop(wr, recs, 1, <<>>)

\* lines 428-430 of WriteComment: line[0 : width-1] when the line is too long
commentText(wr, line) ==
    IF Len(line) + 1 > wr.width THEN SubSeq(line, 1, wr.width - 1) ELSE line

\* lines 432-434 of WriteComment: the padding behind the text
commentPad(wr, cut) ==
    IF Len(cut) + 1 < wr.width THEN outputSpaces(wr.width - Len(cut) - 1) ELSE <<>>

commentBody(wr, cut) == cut \o commentPad(wr, cut) \o lineEnding(wr.HasEOL)

\* Writer.WriteComment(line): line[0 : width-1] with width = 0 is a slice
\* bounds panic, after the comment rune went out
WriteComment(wr, line) ==
    IF wr.Comment = 0 THEN [out |-> <<>>, err |-> NIL]
    ELSE IF Len(line) + 1 > wr.width /\ wr.width - 1 < 0
    THEN [out |-> EncodeRune(wr.Comment), err |-> PANIC]
    ELSE [out |-> EncodeRune(wr.Comment) \o commentBody(wr, commentText(wr, line)),
          err |-> NIL]

\* NewWriter: the struct literal, then Init, whose error is dropped
NewWriter == InitStruct(WriterZero).x

-----------------------------------------------------------------------------
(* The inputs of the Writer *)

\* field and comment texts: "", "a", "ab", "aba", ...
Texts == {[i \in 1..n |-> 97 + ((i + 1) % 2)] : n \in 0..MaxFieldLen}

\* records of up to two fields
Records == SeqsUpTo(Texts, 2)

\* the records WriteAll is given: fields "a" and "aba"
BatchRecords ==
    { <<<<97>>>>, <<<<97, 98, 97>>>>, <<<<97>>, <<97>>>>, <<<<97>>, <<97, 98, 97>>>> }

Batches == SeqsUpTo(BatchRecords, MaxBatch)

\* SkipStart, SkipEnd, FieldLengths and FieldAlign as the caller assigns them;
\* the last two are a FieldAlign shorter than FieldLengths and a zero length
WriterLayouts ==
    { <<0, 0, <<>>, <<>>>>,
      <<0, 0, <<1>>, <<>>>>,
      <<1, 1, <<2>>, <<ALIGNRIGHT>>>>,
      <<0, 0, <<2, 2>>, <<ALIGNLEFT, ALIGNRIGHT>>>>,
      <<1, 0, <<1, 2>>, <<ALIGNRIGHT, ALIGNLEFT>>>>,
      <<0, 1, <<2, 1>>, <<>>>>,
      <<0, 0, <<1, 1>>, <<ALIGNLEFT>>>>,
      <<0, 0, <<1, 0>>, <<>>>> }

\* comment runes: none, '#', and U+00E9, which WriteRune encodes in two bytes
WriterConfigs ==
    [Comment : {0, HASH, 233}, HasEOL : {EOLNONE, EOLCR, EOLLF, EOLCRLF},
     TrimFields : BOOLEAN, layout : WriterLayouts]

-----------------------------------------------------------------------------
(* The Writer's calls *)

NoWriterResult ==
    [op |-> "none", arg |-> <<>>, err |-> NIL, emitted |-> <<>>, prebuf |-> <<>>,
     preout |-> <<>>, done |-> 0]

\* the bound of the model on a run of writer calls
MayWrite == wpc = "idle" /\ Len(wbuf) + Len(wout) <= MaxOut

\* w.FieldLengths = ..., w.FieldAlign = ..., between NewWriter and the first call
WConfigure ==
    /\ stage = "wnew"
    /\ \E c \in WriterConfigs :
          w' = [Assign(w, c) EXCEPT !.FieldAlign = c.layout[4]]
    /\ stage' = "wconfigured"
    /\ UNCHANGED <<r, rin, rpc, racc, rres, rskip, wbuf, wout, wpc, wres>>

\* w.Init()
WInit ==
    /\ stage = "wconfigured"
    /\ wpc = "idle"
    /\ LET i == InitStruct(w)
       IN  /\ w' = i.x
           /\ wres' = [NoWriterResult EXCEPT !.op = "Init", !.err = i.err,
                                             !.prebuf = wbuf, !.preout = wout]
    /\ UNCHANGED <<r, rin, rpc, racc, rres, rskip, wbuf, wout, wpc, stage>>

\* the layout a caller moves to after a first Init: two columns
NextFieldLengths == <<2, 1>>

\* w.FieldLengths = ... on a Writer of one column whose Init has succeeded,
\* before anything was written; FieldAlign is left as Init made it
WReassign ==
    /\ stage = "wconfigured"
    /\ wpc = "idle"
    /\ wres.op = "Init" /\ wres.err = NIL
    /\ wbuf = <<>> /\ wout = <<>>
    /\ Len(w.FieldLengths) = 1
    /\ w' = [w EXCEPT !.FieldLengths = NextFieldLengths]
    /\ wres' = [NoWriterResult EXCEPT !.op = "Assign"]
    /\ UNCHANGED <<r, rin, rpc, racc, rres, rskip, wbuf, wout, wpc, stage>>

\* a writer call that hands x.out to the bufio.Writer and returns x.err
WriterCall(op, arg, x, done) ==
    /\ wbuf' = wbuf \o x.out
    /\ wpc' = IF x.err = PANIC THEN "crashed" ELSE "idle"
    /\ wres' = [op |-> op, arg |-> arg, err |-> x.err, emitted |-> x.out,
                prebuf |-> wbuf, preout |-> wout, done |-> done]
    /\ UNCHANGED <<r, rin, rpc, racc, rres, rskip, w, wout, stage>>

\* w.Write(flds)
DoWrite ==
    /\ stage = "wconfigured"
    /\ MayWrite
    /\ \E flds \in Records : WriterCall("Write", flds, Write(w, flds), 1)

\* w.WriteComment(line)
DoWriteComment ==
    /\ stage = "wconfigured"
    /\ MayWrite
    /\ \E line \in Texts : WriterCall("WriteComment", line, WriteComment(w, line), 1)

WriteAllCall(recs, x) ==
    /\ wbuf' = IF x.flush THEN <<>> ELSE wbuf \o x.out
    /\ wout' = IF x.flush THEN wout \o wbuf \o x.out ELSE wout
    /\ wpc' = IF x.err = PANIC THEN "crashed" ELSE "idle"
    /\ wres' = [op |-> "WriteAll", arg |-> recs, err |-> x.err, emitted |-> x.out,
                prebuf |-> wbuf, preout |-> wout, done |-> x.done]

\* w.WriteAll(recs): the loop, then w.w.Flush() when no Write failed
DoWriteAll ==
    /\ stage = "wconfigured"
    /\ MayWrite
    /\ \E recs \in Batches : WriteAllCall(recs, WriteAll(w, recs))
    /\ UNCHANGED <<r, rin, rpc, racc, rres, rskip, w, stage>>

\* w.Flush()
Flush ==
    /\ stage = "wconfigured"
    /\ wpc = "idle"
    /\ wbuf' = <<>>
    /\ wout' = wout \o wbuf
    /\ wres' = [NoWriterResult EXCEPT !.op = "Flush", !.prebuf = wbuf, !.preout = wout]
    /\ UNCHANGED <<r, rin, rpc, racc, rres, rskip, w, wpc, stage>>

-----------------------------------------------------------------------------
(* Specifications *)

Fresh ==
    /\ r = NewReader
    /\ rpc = "idle"
    /\ racc = <<>>
    /\ rres = NoReaderResult
    /\ rskip = <<>>
    /\ w = NewWriter
    /\ wbuf = <<>>
    /\ wout = <<>>
    /\ wpc = "idle"
    /\ wres = NoWriterResult

\* a Reader on one of the input streams
Init ==
    /\ Fresh
    /\ rin \in Streams
    /\ stage = "new"

Next ==
    \/ RConfigure
    \/ RInit
    \/ Read
    \/ ReadRows
    \/ ReadAllBegin
    \/ ReadAllIter

Spec == Init /\ [][Next]_vars

\* a Writer on an empty output stream
InitW ==
    /\ Fresh
    /\ rin = <<>>
    /\ stage = "wnew"

NextW ==
    \/ WConfigure
    \/ WInit
    \/ WReassign
    \/ DoWrite
    \/ DoWriteComment
    \/ DoWriteAll
    \/ Flush

SpecW == InitW /\ [][NextW]_vars


-----------------------------------------------------------------------------
(* A Writer and a Reader of one layout: what Write emits is what Read is given *)

\* fields written in the round trip: the texts, and " a" with a leading space
RoundTripTexts == Texts \cup { <<SP, 97>> }

RoundTripRecords == {rec \in SeqsUpTo(RoundTripTexts, 2) : rec # <<>>}

\* layouts that Init accepts; a nil FieldAlign is filled in by Init
RoundTripLayouts ==
    { <<0, 0, <<1>>, <<>>>>,
      <<1, 1, <<2>>, <<ALIGNRIGHT>>>>,
      <<0, 0, <<2, 2>>, <<ALIGNLEFT, ALIGNRIGHT>>>>,
      <<1, 0, <<1, 2>>, <<>>>> }

\* comment runes: none, '#', and 'a', which a field can start with
RoundTripConfigs ==
    [Comment : {0, HASH, 97}, HasEOL : {EOLNONE, EOLCR, EOLLF, EOLCRLF},
     TrimFields : BOOLEAN, layout : RoundTripLayouts]

\* the same assignments to a Writer and a Reader, then Init on both
RTConfigure ==
    /\ stage = "rtnew"
    /\ \E c \in RoundTripConfigs :
          /\ w' = InitStruct([Assign(w, c) EXCEPT !.FieldAlign = c.layout[4]]).x
          /\ r' = InitStruct([Assign(r, c) EXCEPT !.FieldAlign = c.layout[4]]).x
    /\ stage' = "rtready"
    /\ UNCHANGED <<rin, rpc, racc, rres, rskip, wbuf, wout, wpc, wres>>

\* w.Write(flds) and w.Flush(); x is what Write did. The flushed bytes are
\* the stream the Reader is opened on
RTWritten(flds, x) ==
    /\ wbuf' = <<>>
    /\ wout' = x.out
    /\ rin' = x.out
    /\ wpc' = IF x.err = PANIC THEN "crashed" ELSE "idle"
    /\ wres' = [op |-> "Write", arg |-> flds, err |-> x.err, emitted |-> x.out,
                prebuf |-> <<>>, preout |-> <<>>, done |-> 1]

RTWrite ==
    /\ stage = "rtready"
    /\ \E flds \in RoundTripRecords : RTWritten(flds, Write(w, flds))
    /\ stage' = "rtwritten"
    /\ UNCHANGED <<r, rpc, racc, rres, rskip, w>>

\* r.Read() on the written stream
RTRead ==
    /\ stage = "rtwritten"
    /\ wpc = "idle"
    /\ rpc = "idle"
    /\ ReadFrom(skipOnce(r, rin))

InitRT ==
    /\ Fresh
    /\ rin = <<>>
    /\ stage = "rtnew"

NextRT ==
    \/ RTConfigure
    \/ RTWrite
    \/ RTRead

SpecRT == InitRT /\ [][NextRT]_vars

-----------------------------------------------------------------------------
(* Properties *)

\* the line width of a layout: skipStart + the field lengths + skipEnd
LineWidth(x) == x.SkipStart + SumSeq(x.FieldLengths) + x.SkipEnd

\* Init succeeded on the layout as it is now: the width and the alignments
\* are those of the configuration
Initialised(x) == InitStruct(x).err = NIL /\ InitStruct(x).x = x

\* a field padded with spaces to its column, on the side its alignment leaves free
PaddedTo(f, fl, align) ==
    IF align = ALIGNRIGHT THEN Repeat(SP, fl - Len(f)) \o f
    ELSE f \o Repeat(SP, fl - Len(f))

\* the record flds is well formed for the layout of wr and was encoded to line
WellFormed(wr, flds, line) ==
    /\ Len(flds) = Len(wr.FieldLengths)
    /\ \A i \in 1..Len(flds) :
          /\ Len(flds[i]) <= wr.FieldLengths[i]
          /\ wr.TrimFields => Trim(flds[i]) = flds[i]
          /\ \A j \in 1..Len(flds[i]) : flds[i][j] \notin {CR, LF}
    /\ line # <<>>
    /\ wr.Comment # 0 => line[1] # wr.Comment

\* what reading the record back is to give
ReadBack(wr, flds) ==
    [i \in 1..Len(flds) |->
        IF wr.TrimFields THEN flds[i]
        ELSE PaddedTo(flds[i], wr.FieldLengths[i], wr.FieldAlign[i])]

\* the first Read of the stream that one successful Write of a well-formed
\* record produced
RoundTripDone ==
    /\ stage = "rtwritten"
    /\ wres.op = "Write" /\ wres.err = NIL
    /\ rres.op = "Read" /\ rres.pre = wout
    /\ WellFormed(w, wres.arg, wres.emitted)

\* C1: a well-formed record written by a Writer and read back by a Reader of
\* the same layout comes back field for field: the field itself when
\* TrimFields is set, the field padded to its column otherwise.
C1_RoundTrip ==
    RoundTripDone =>
        /\ rres.err = Bare(NIL)
        /\ rres.recs = <<ReadBack(w, wres.arg)>>

\* a call of Read, ReadRows or ReadAll has returned or crashed
ReaderReturned == rres.op \in {"Read", "ReadRows", "ReadAll"} /\ rpc # "readall"

\* C2: a Reader whose FieldLengths is empty fails with ErrNoFields before it
\* touches its stream.
C2_NoFieldsRejected ==
    (ReaderReturned /\ r.FieldLengths = <<>>) =>
        /\ rres.err.Err = ErrNoFields
        /\ rin = rres.pre

\* the number of delimiter bytes behind a raw line
DelimLen(eol) ==
    CASE eol = EOLCRLF -> 2
      [] eol = EOLCR \/ eol = EOLLF -> 1
      [] OTHER -> 0

\* the last call obtained a raw line that is no comment and checked it: it
\* returned a record from it or refused it for its width
LineChecked ==
    /\ rres.op = "Read" /\ rpc = "idle"
    /\ rres.cause \in {NIL, ErrIncorrectLineWidth}
    /\ Initialised(r)

\* the length of the raw line the last call took off the stream
RawLineLen == Len(rres.used) - DelimLen(r.HasEOL)

\* C3: a raw line that is no comment and whose length is not the line width
\* makes the read fail with ErrIncorrectLineWidth and yields no record, in
\* every mode, a short final chunk in mode none included.
C3_WrongWidthRejected ==
    (LineChecked /\ RawLineLen # LineWidth(r)) =>
        /\ rres.cause = ErrIncorrectLineWidth
        /\ rres.recs = <<>>

\* a chunk that a skip phase consumed is a whole raw line: it ends with the
\* delimiter of the mode (in mode none every chunk counts)
WholeLine(eol, c) ==
    CASE eol = EOLCR -> c[Len(c)] = CR
      [] eol = EOLLF -> c[Len(c)] = LF
      [] eol = EOLCRLF -> Len(c) >= 2 /\ c[Len(c) - 1] = CR /\ c[Len(c)] = LF
      [] OTHER -> TRUE

\* the whole raw lines that the skip phases of all calls so far discarded
SkippedLines == SelectSeq(rskip, LAMBDA c : WholeLine(r.HasEOL, c))

\* C8: over any sequence of Read, ReadRows and ReadAll calls no more than
\* SkipLines raw lines are discarded by skip phases: the lines are skipped once.
C8_SkipOnce == Len(SkippedLines) <= r.SkipLines

\* the stream that the last call's skip phase left
AfterSkip == SubSeq(rres.pre, Len(Flatten(rres.discarded)) + 1, Len(rres.pre))

\* the first raw line of s that does not start with the comment rune; the
\* empty line when there is none
RECURSIVE FirstDataLine(_, _)
DataLineFrom(rd, l) ==
    IF l.err # NIL \/ l.line = <<>> THEN <<>>
    ELSE IF l.line[1] = rd.Comment THEN FirstDataLine(rd, l.rest)
    ELSE l.line

FirstDataLine(rd, s) == DataLineFrom(rd, readLine(rd, s))

\* the record rec holds the bytes of line between SkipStart and SkipEnd
DecodedFrom(rd, rec, line) ==
    Flatten(rec) = SubSeq(line, rd.SkipStart + 1, rd.SkipStart + SumSeq(rd.FieldLengths))

\* C4: with a Comment rune set, no record that Read, ReadRows or ReadAll
\* returns is decoded from a raw line that starts with the rune, however many
\* comment lines come before a data line; only lines starting with the rune
\* are dropped, and Read decodes the first data line behind the comments.
C4_CommentsSkipped ==
    (ReaderReturned /\ rpc = "idle" /\ r.Comment # 0) =>
        /\ Len(rres.srcs) = Len(rres.recs)
        /\ \A i \in 1..Len(rres.recs) :
              /\ rres.srcs[i] # <<>>
              /\ rres.srcs[i][1] # r.Comment
              /\ ~r.TrimFields => DecodedFrom(r, rres.recs[i], rres.srcs[i])
        /\ \A j \in 1..Len(rres.comments) :
              rres.comments[j] # <<>> /\ rres.comments[j][1] = r.Comment
        /\ (rres.op = "Read" /\ rres.recs # <<>>) =>
              rres.srcs[1] = FirstDataLine(r, AfterSkip)

\* a Read that dropped two comment lines and decoded the data line behind them
C4_Witness ==
    /\ rres.op = "Read" /\ rpc = "idle"
    /\ r.Comment # 0
    /\ Len(rres.comments) >= 2
    /\ Len(rres.recs) = 1

\* ReadAll has returned from its loop: its skip phase went through
ReadAllReturned == rres.op = "ReadAll" /\ rpc = "idle" /\ r.initialskipdone

\* what parsing one record more than ReadAll returned gives on the same stream
ReadAllAgain == rowsLoop(r, AfterSkip, 0, Len(rres.recs) + 1, NoRows(AfterSkip))

\* C7: ReadAll returns the records parsed before the first failing read; when
\* that read failed with the end of the stream the error is nil, any other
\* failure is handed back as the error.
C7_ReadAllEOF ==
    ReadAllReturned =>
        /\ rres.cause # NIL
        /\ ReadAllAgain.recs = rres.recs
        /\ ReadAllAgain.cause = rres.cause
        /\ rres.cause = EOF => rres.err = Bare(NIL)
        /\ rres.cause # EOF => rres.err.Err = rres.cause

\* a ReadAll that gathered two records and then met the end of the stream
C7_Witness ==
    /\ ReadAllReturned
    /\ rres.cause = EOF
    /\ Len(rres.recs) >= 2
    /\ rres.err = Bare(NIL)

\* a ReadAll that gathered a record and then met a line of the wrong width
C7_WitnessError ==
    /\ ReadAllReturned
    /\ rres.cause = ErrIncorrectLineWidth
    /\ Len(rres.recs) >= 1
    /\ rres.err.Err = ErrIncorrectLineWidth

\* a Write of a record of the layout's arity has returned
WriteReturned ==
    /\ wres.op = "Write" /\ wpc = "idle"
    /\ Len(wres.arg) = Len(w.FieldLengths)

\* field i of the record is longer than its column
TooLong(wr, flds, i) == Len(flds[i]) > wr.FieldLengths[i]

\* the first column of the record whose field is too long
FirstTooLong(wr, flds) ==
    CHOOSE i \in 1..Len(flds) :
        TooLong(wr, flds, i) /\ \A j \in 1..(i - 1) : ~TooLong(wr, flds, j)

\* the SkipStart spaces and the first k columns of a record, each padded
PaddedColumns(wr, flds, k) ==
    Repeat(SP, wr.SkipStart)
    \o Flatten([j \in 1..k |-> PaddedTo(flds[j], wr.FieldLengths[j], wr.FieldAlign[j])])

\* C5: with TrimFields off, a Write of a record with a field longer than its
\* column returns ErrFieldLengthError, and nothing is emitted from the column
\* where that is found: the call has emitted the SkipStart spaces and the
\* columns before it, not the long field, no later field, no SkipEnd spaces
\* and no line ending.
C5_OversizeStops ==
    (WriteReturned /\ ~w.TrimFields
       /\ \E i \in 1..Len(wres.arg) : TooLong(w, wres.arg, i)) =>
        /\ wres.err = ErrFieldLengthError
        /\ wres.emitted = PaddedColumns(w, wres.arg, FirstTooLong(w, wres.arg) - 1)
        /\ wbuf = wres.prebuf \o wres.emitted
        /\ wout = wres.preout

\* a Write that emitted its first column and refused the second, with a line
\* ending configured
C5_Witness ==
    /\ WriteReturned /\ ~w.TrimFields
    /\ Len(wres.arg) = 2
    /\ ~TooLong(w, wres.arg, 1) /\ TooLong(w, wres.arg, 2)
    /\ wres.err = ErrFieldLengthError
    /\ wres.emitted # <<>>
    /\ w.HasEOL # EOLNONE

\* the bytes of column i in an emitted line
ColumnOf(wr, line, i) ==
    SubSeq(line, wr.SkipStart + SumSeq(SubSeq(wr.FieldLengths, 1, i - 1)) + 1,
                 wr.SkipStart + SumSeq(SubSeq(wr.FieldLengths, 1, i)))

\* C6: in a Write every column whose field is not longer than the column is
\* padded by its own alignment: left gives the field and then the spaces,
\* right the spaces and then the field, whatever the other columns have.
C6_Padding ==
    (WriteReturned /\ wres.err = NIL) =>
        \A i \in 1..Len(wres.arg) :
            ~TooLong(w, wres.arg, i) =>
                ColumnOf(w, wres.emitted, i) =
                    IF w.FieldAlign[i] = ALIGNRIGHT
                    THEN Repeat(SP, w.FieldLengths[i] - Len(wres.arg[i])) \o wres.arg[i]
                    ELSE wres.arg[i] \o Repeat(SP, w.FieldLengths[i] - Len(wres.arg[i]))

\* a Write of two columns of different alignment, both fields shorter than
\* their columns
C6_Witness ==
    /\ WriteReturned /\ wres.err = NIL
    /\ Len(wres.arg) = 2
    /\ w.FieldAlign[1] = ALIGNLEFT /\ w.FieldAlign[2] = ALIGNRIGHT
    /\ wres.arg[1] # <<>> /\ Len(wres.arg[1]) < w.FieldLengths[1]
    /\ wres.arg[2] # <<>> /\ Len(wres.arg[2]) < w.FieldLengths[2]

\* the text of a comment line: cut to n bytes when longer, followed by spaces
\* up to n bytes when shorter
CutOrPad(text, n) ==
    IF Len(text) > n THEN SubSeq(text, 1, n)
    ELSE text \o Repeat(SP, n - Len(text))

\* C9: WriteComment emits nothing and returns nil when no Comment rune is
\* set; otherwise it emits the rune, the text cut or padded to line width - 1
\* bytes and the line ending, so that the comment line is as long as a data
\* line: line width bytes and the line ending.
C9_CommentLine ==
    (wres.op = "WriteComment" /\ wpc = "idle" /\ Initialised(w)) =>
        /\ wres.err = NIL
        /\ w.Comment = 0 => wres.emitted = <<>>
        /\ w.Comment # 0 =>
              /\ wres.emitted = EncodeRune(w.Comment)
                                \o CutOrPad(wres.arg, LineWidth(w) - 1)
                                \o lineEnding(w.HasEOL)
              /\ Len(wres.emitted) = LineWidth(w) + Len(lineEnding(w.HasEOL))

\* WriteAll has returned
WriteAllReturned == wres.op = "WriteAll" /\ wpc = "idle"

\* the records of a list whose Write fails
Failing(wr, recs) == {i \in 1..Len(recs) : Write(wr, recs[i]).err # NIL}

\* the first of them
FirstFailing(wr, recs) ==
    CHOOSE i \in Failing(wr, recs) : \A j \in Failing(wr, recs) : i <= j

\* what Write emits for the first k records of a list, in list order
WrittenUpTo(wr, recs, k) == Flatten([i \in 1..k |-> Write(wr, recs[i]).out])

\* C10: WriteAll writes the records in list order; at the first record whose
\* Write fails it stops and returns that failure, no later record written;
\* when no Write fails it flushes, and all bytes emitted so far are on the
\* underlying stream when it returns.
C10_WriteAll ==
    WriteAllReturned =>
        IF Failing(w, wres.arg) = {}
        THEN /\ wres.err = NIL
             /\ wres.emitted = WrittenUpTo(w, wres.arg, Len(wres.arg))
             /\ wbuf = <<>>
             /\ wout = wres.preout \o wres.prebuf \o wres.emitted
        ELSE /\ wres.err = Write(w, wres.arg[FirstFailing(w, wres.arg)]).err
             /\ wres.done = FirstFailing(w, wres.arg)
             /\ wres.emitted = WrittenUpTo(w, wres.arg, FirstFailing(w, wres.arg))
             /\ wbuf = wres.prebuf \o wres.emitted

\* a WriteAll of two records that wrote the first, failed on the second
C10_Witness ==
    /\ WriteAllReturned
    /\ Len(wres.arg) = 2
    /\ Failing(w, wres.arg) = {2}
    /\ wres.err = ErrFieldLengthError
    /\ Write(w, wres.arg[1]).out # <<>>

\* a WriteAll of two records that flushed them behind bytes written before
C10_WitnessFlush ==
    /\ WriteAllReturned
    /\ Len(wres.arg) = 2
    /\ wres.err = NIL
    /\ wres.prebuf # <<>>
    /\ wbuf = <<>> /\ wout = wres.prebuf \o wres.emitted

\* a WriteAll of two records that failed on the first and left the second
C10_WitnessStop ==
    /\ WriteAllReturned
    /\ Len(wres.arg) = 2
    /\ wres.done = 1
    /\ wres.err # NIL
    /\ Write(w, wres.arg[2]).err = NIL

\* the line ending of a mode: CR, LF, CR LF or nothing
Ending(eol) ==
    CASE eol = EOLCR -> <<CR>>
      [] eol = EOLLF -> <<LF>>
      [] eol = EOLCRLF -> <<CR, LF>>
      [] OTHER -> <<>>

\* column i of a written line: the first bytes of a field that is too long,
\* the padded field otherwise
ColumnBytes(wr, flds, i) ==
    IF TooLong(wr, flds, i) THEN SubSeq(flds[i], 1, wr.FieldLengths[i])
    ELSE PaddedTo(flds[i], wr.FieldLengths[i], wr.FieldAlign[i])

\* C11: every successful Write emits one line of SkipStart + the field
\* lengths + SkipEnd bytes and then the line ending of the mode: the
\* SkipStart spaces, every column in order in exactly its length (a long
\* field cut, a short one padded), the SkipEnd spaces.
C11_LineShape ==
    (WriteReturned /\ wres.err = NIL) =>
        /\ wres.emitted =
              Repeat(SP, w.SkipStart)
              \o Flatten([i \in 1..Len(wres.arg) |-> ColumnBytes(w, wres.arg, i)])
              \o Repeat(SP, w.SkipEnd)
              \o Ending(w.HasEOL)
        /\ Len(wres.emitted) = LineWidth(w) + Len(Ending(w.HasEOL))
        /\ \A i \in 1..Len(wres.arg) :
              Len(ColumnBytes(w, wres.arg, i)) = w.FieldLengths[i]

\* a successful Write in mode crlf behind SkipStart spaces, its first field
\* cut and its second padded
C11_Witness ==
    /\ WriteReturned /\ wres.err = NIL
    /\ Len(wres.arg) = 2
    /\ TooLong(w, wres.arg, 1)
    /\ Len(wres.arg[2]) < w.FieldLengths[2]
    /\ w.SkipStart > 0
    /\ w.HasEOL = EOLCRLF

\* the last call is the first call on its Reader
FirstCall == ~rres.predone /\ rskip = Consumed(rres.discarded)

\* the number of raw lines the last call has read when it fails: the lines of
\* its skip phase and, when that went through, the comment lines, the lines
\* of the records and the line it failed on
LinesRead ==
    IF rres.cause # NIL /\ Len(rres.recs) = 0 /\ ~r.initialskipdone
    THEN Len(rres.discarded)
    ELSE Len(rres.discarded) + Len(rres.comments) + Len(rres.recs) + 1

\* C12: every failure that Read, ReadRows or ReadAll returns is a ParseError
\* whose Line is the 1-based number of the line being processed.
C12_ErrorsPositioned ==
    (ReaderReturned /\ rpc = "idle" /\ rres.err.Err # NIL) =>
        /\ rres.err.wrapped
        /\ rres.err.Line >= 1
        /\ FirstCall => rres.err.Line = LinesRead

\* the layout is one that Init accepts: some fields, every length positive
ValidLayout(x) ==
    /\ x.FieldLengths # <<>>
    /\ \A i \in 1..Len(x.FieldLengths) : x.FieldLengths[i] > 0

\* C13: the width that Read, ReadRows and ReadAll work with is that of the
\* configuration as it is at the call, SkipStart + SkipEnd + the field
\* lengths, without a call of Init after the configuration was assigned.
C13_WidthCurrent ==
    (ReaderReturned /\ ValidLayout(r)) => r.width = LineWidth(r)

\* the bytes u are a line without CR and LF followed by CR LF
EndsWithCRLF(u) ==
    /\ Len(u) >= 2
    /\ u[Len(u) - 1] = CR /\ u[Len(u)] = LF
    /\ \A j \in 1..(Len(u) - 2) : u[j] \notin {CR, LF}

\* the bytes u end with a CR and a byte behind it that is no LF
EndsWithStrayCR(u) == Len(u) >= 2 /\ u[Len(u) - 1] = CR /\ u[Len(u)] # LF

\* a Read in mode crlf of a Reader whose Init succeeded has taken a line
CRLFRead ==
    /\ rres.op = "Read" /\ rpc = "idle"
    /\ r.HasEOL = EOLCRLF
    /\ Initialised(r)
    /\ r.initialskipdone

\* C14: in mode crlf the line whose width is checked is the bytes in front of
\* the CR: a line of exactly the line width followed by CR LF is decoded into
\* a record; a CR that is not followed by LF fails with the CRLF error.
C14_CRLFLine ==
    CRLFRead =>
        /\ (/\ EndsWithCRLF(rres.used)
            /\ Len(rres.used) - 2 = LineWidth(r)
            /\ rres.used[1] # r.Comment) =>
              /\ rres.cause = NIL
              /\ Len(rres.recs) = 1
              /\ DecodedFrom(r, rres.recs[1], SubSeq(rres.used, 1, Len(rres.used) - 2))
        /\ EndsWithStrayCR(rres.used) => rres.cause = ErrCRLF

\* the bytes of column j in a raw line
SliceOf(rd, line, j) ==
    SubSeq(line, rd.SkipStart + SumSeq(SubSeq(rd.FieldLengths, 1, j - 1)) + 1,
                 rd.SkipStart + SumSeq(SubSeq(rd.FieldLengths, 1, j)))

\* t is s without its leading and trailing spaces and tabs: a blanks in
\* front and b blanks behind are gone, and nothing else
IsTrimOf(t, s) ==
    \E a, b \in 0..Len(s) :
        /\ a + b <= Len(s)
        /\ t = SubSeq(s, a + 1, Len(s) - b)
        /\ \A k \in 1..a : s[k] \in {SP, TAB}
        /\ \A k \in (Len(s) - b + 1)..Len(s) : s[k] \in {SP, TAB}
        /\ t # <<>> => (t[1] \notin {SP, TAB} /\ t[Len(t)] \notin {SP, TAB})

\* the record rec is the decoding of the raw line
DecodingOf(rd, rec, line) ==
    /\ Len(rec) = Len(rd.FieldLengths)
    /\ \A j \in 1..Len(rec) :
          IF rd.TrimFields THEN IsTrimOf(rec[j], SliceOf(rd, line, j))
          ELSE rec[j] = SliceOf(rd, line, j)

\* C15: the record decoded from a raw line of exactly the line width has one
\* field per column, in order; field j is the FieldLengths[j] bytes at offset
\* SkipStart + the lengths before it, without its leading and trailing spaces
\* and tabs when TrimFields is set and unchanged otherwise; the SkipStart and
\* SkipEnd bytes are in no field.
C15_Decoding ==
    (ReaderReturned /\ rpc = "idle") =>
        \A i \in 1..Len(rres.recs) :
            Len(rres.srcs[i]) = LineWidth(r) =>
                DecodingOf(r, rres.recs[i], rres.srcs[i])

\* a record of two trimmed fields from a line with SkipStart and SkipEnd
\* bytes, a blank taken off each field
C15_Witness ==
    /\ rres.op = "Read" /\ rpc = "idle"
    /\ r.TrimFields /\ r.SkipStart > 0 /\ r.SkipEnd > 0
    /\ Len(rres.recs) = 1 /\ Len(rres.recs[1]) = 2
    /\ Len(rres.srcs[1]) = LineWidth(r)
    /\ \A j \in 1..2 : rres.recs[1][j] # <<>> /\ rres.recs[1][j] # SliceOf(r, rres.srcs[1], j)

\* a trimmed field that keeps the blanks inside it
C15_WitnessInside ==
    /\ rres.op = "Read" /\ rpc = "idle"
    /\ r.TrimFields
    /\ Len(rres.recs) = 1 /\ Len(rres.recs[1]) = 1
    /\ rres.recs[1][1] = <<97, SP, TAB, 97>>

\* C16: whenever Init of a Writer has returned success, FieldAlign has one
\* entry for every entry of FieldLengths, so that Write finds an alignment
\* for every column.
C16_AlignPerColumn ==
    (wres.op = "Init" /\ wres.err = NIL) => Len(w.FieldAlign) = Len(w.FieldLengths)

\* C17: for a Reader whose Init succeeded on its configuration, Read,
\* ReadRows and ReadAll return a record or an error on every input: no index
\* into the raw line is outside the line, so no call ends in a panic.
C17_NoPanic == Initialised(r) => rpc # "crashed"

\* C18: ReadAll terminates on every finite stream: a round of its loop that
\* does not end the call takes at least one byte off the stream.
C18_RoundsConsume ==
    [][(rpc = "readall" /\ rpc' = "readall") => Len(rin') < Len(rin)]_vars

\* the positions of s at which the line ending d starts
EndingsIn(s, d) ==
    {p \in 1..(Len(s) - Len(d) + 1) : SubSeq(s, p, p + Len(d) - 1) = d}

\* the first of them
FirstEnding(s, d) == CHOOSE p \in EndingsIn(s, d) : \A q \in EndingsIn(s, d) : p <= q

\* the raw lines of the stream s for the line ending d, a last line without
\* an ending included
RECURSIVE RawLines(_, _)
RawLines(s, d) ==
    IF s = <<>> THEN <<>>
    ELSE IF EndingsIn(s, d) = {} THEN <<s>>
    ELSE <<SubSeq(s, 1, FirstEnding(s, d) - 1)>>
         \o RawLines(SubSeq(s, FirstEnding(s, d) + Len(d), Len(s)), d)

\* the stream s ends with the line ending d, or is empty
Terminated(s, d) ==
    s = <<>> \/ (Len(s) >= Len(d) /\ SubSeq(s, Len(s) - Len(d) + 1, Len(s)) = d)

\* the lines that are no comment lines
DataLines(rd, lines) ==
    SelectSeq(lines, LAMBDA l : ~(rd.Comment # 0 /\ l # <<>> /\ l[1] = rd.Comment))

\* the raw lines of the stream that the last call's skip phase left
LinesAfterSkip == RawLines(AfterSkip, Ending(r.HasEOL))

\* a line of exactly the line width without CR and LF in it
WellFormedLine(rd, l) ==
    /\ Len(l) = LineWidth(rd)
    /\ \A k \in 1..Len(l) : l[k] \notin {CR, LF}

\* ReadAll has returned success in a mode with a line ending, on a stream
\* whose last line has its ending or is a line of exactly the line width
ReadAllSucceeded ==
    /\ ReadAllReturned
    /\ rres.err = Bare(NIL)
    /\ r.HasEOL \in {EOLCR, EOLLF, EOLCRLF}
    /\ Initialised(r)
    /\ \/ Terminated(AfterSkip, Ending(r.HasEOL))
       \/ WellFormedLine(r, LinesAfterSkip[Len(LinesAfterSkip)])

\* C19: when ReadAll returns success in mode cr, lf or crlf, the records it
\* returns are decoded from all raw lines behind the skipped ones that are
\* no comment lines, in stream order, a last line of the line width without
\* a line ending included.
C19_NoLineLost ==
    ReadAllSucceeded =>
        /\ rres.srcs = DataLines(r, LinesAfterSkip)
        /\ Len(rres.recs) = Len(rres.srcs)

=============================================================================
